---------------------------- MODULE Spec2Model ----------------------------
(***************************************************************************)
(* A model of app.py, the Streamlit NMR peak viewer / HMDB comparator.     *)
(*                                                                         *)
(* One run of the script is a walk of pc through its blocks: load_hmdb,    *)
(* the metabolite search box, the file upload block and, inside it,        *)
(* match_to_hmdb (the row loop and the final sort).  Spec is the whole     *)
(* script; SpecMatch is match_to_hmdb called on its own, with the wider    *)
(* arguments (tol = 0, longer ppm lists) the slider of the script cannot   *)
(* produce.                                                                *)
(*                                                                         *)
(* Chemical shifts and tolerances are integers in units of 0.0001 ppm      *)
(* (1.0 ppm = 10000); a score is an integer number of thousandths, which   *)
(* is what round(score, 3) leaves of it (0.5 = 500).                       *)
(***************************************************************************)
EXTENDS Integers, Sequences, FiniteSets, TLC

VARIABLES
    refFile,        \* hmdb_reference.csv on disk: [state, rows]
    hmdb_df,        \* the module-level hmdb_df: [isNone, rows]
    search_name,    \* the sidebar text input, a sequence of characters
    matches,        \* the row numbers the search selected
    uploaded_file,  \* the file_uploader's value: [kind, columns, ppm]
    sample_df,      \* the sample frame: [columns, ppm]
    ppm_tol,        \* the tolerance handed to match_to_hmdb
    i,              \* match_to_hmdb: the next row of hmdb_df.iterrows()
    results,        \* match_to_hmdb: results, then the returned frame
    caller,         \* who called match_to_hmdb: "app" or "direct"
    out,            \* the elements the script has rendered so far
    error,          \* the exception that ended the run, or "none"
    pc              \* the position of the script

vars == <<refFile, hmdb_df, search_name, matches, uploaded_file, sample_df,
          ppm_tol, i, results, caller, out, error, pc>>

----------------------------------------------------------------------------
(* Bounds of the model.                                                    *)

MaxRecords == 2
MaxPeaks == 2
MaxQuery == 1
MaxCols == 2

SeqsUpTo(S, n) == UNION {[1..k -> S] : k \in 0..n}

Abs(x) == IF x < 0 THEN -x ELSE x

----------------------------------------------------------------------------
(* Floats.  A float is [nan, v]: either NaN or the number v/10000.         *)

F(v) == [nan |-> FALSE, v |-> v]

NaN == [nan |-> TRUE, v |-> 0]

(* float(x) on the tokens the tables are written with; every other token   *)
(* ("abc", the empty token a trailing ';' leaves) raises ValueError.       *)
FloatOf ==
    ("1.0" :> F(10000)) @@ ("1.001" :> F(10010)) @@ ("2.0" :> F(20000)) @@
    ("3.0" :> F(30000)) @@ ("nan" :> NaN)

FloatParses(tok) == tok \in DOMAIN FloatOf

(* A ppm_list field is [na, toks]: a missing field (pandas NaN) or the     *)
(* text toks[1];toks[2];...  str(NaN) is "nan", and split(";") of a text   *)
(* always yields at least one token.                                       *)
StrSplit(cell) == IF cell.na THEN <<"nan">> ELSE cell.toks

(* line 52: does the list comprehension raise ValueError?                  *)
ParseRaises(cell) == \E k \in 1..Len(StrSplit(cell)) : ~FloatParses(StrSplit(cell)[k])

(* line 52: hmdb_peaks, when no token raises.                              *)
ParsedShifts(cell) == [k \in 1..Len(StrSplit(cell)) |-> FloatOf[StrSplit(cell)[k]]]

(* The comparison with the boundary left out.                              *)
WithinStrict(sp, hp, tol) == ~hp.nan /\ Abs(sp - hp.v) < tol

(* line 53: abs(sp - hp) <= tol; every comparison with NaN is false.       *)
Within(sp, hp, tol) == ~hp.nan /\ Abs(sp - hp.v) <= tol

(* line 53: any(... for hp in hmdb_peaks)                                  *)
AnyWithin(sp, hmdb_peaks, tol) ==
    \E k \in 1..Len(hmdb_peaks) : Within(sp, hmdb_peaks[k], tol)

RECURSIVE SumMatches(_, _, _)
(* line 53: sum(any(...) for sp in sample_peaks), True counting as 1.      *)
SumMatches(sample_peaks, hmdb_peaks, tol) ==
    IF sample_peaks = <<>> THEN 0
    ELSE (IF AnyWithin(Head(sample_peaks), hmdb_peaks, tol) THEN 1 ELSE 0)
         + SumMatches(Tail(sample_peaks), hmdb_peaks, tol)

(* line 60: round(m / n, 3) in thousandths, ties to even as Python rounds. *)
(* (An exact tie needs n >= 16; a tie of a ratio that is not a binary      *)
(* fraction falls as the double nearest to m/n lies.)                      *)
Round3(m, n) ==
    LET q == (1000 * m) \div n
        r == (1000 * m) % n
    IN  IF 2 * r < n THEN q
        ELSE IF 2 * r > n THEN q + 1
        ELSE IF q % 2 = 0 THEN q ELSE q + 1

(* lines 52-60: the "Match score" of one row (hmdb_peaks is never empty,   *)
(* so the else branch of line 54 is kept only as the code has it).         *)
MatchScore(sample_peaks, cell, tol) ==
    LET hmdb_peaks == ParsedShifts(cell)
    IN  IF Len(hmdb_peaks) > 0
        THEN Round3(SumMatches(sample_peaks, hmdb_peaks, tol), Len(hmdb_peaks))
        ELSE 0

(* lines 55-65: the dict appended for one row.                             *)
ResultRow(sample_peaks, row, tol) ==
    [Metabolite |-> row.Name,
     HMDB_ID    |-> row.HMDB_ID,
     score      |-> MatchScore(sample_peaks, row.ppm_list, tol),
     HMDB_peaks |-> row.ppm_list]

Perms(n) == {p \in [1..n -> 1..n] : \A a, b \in 1..n : a # b => p[a] # p[b]}

(* line 68: sort_values("Match score", ascending=False) with the default   *)
(* kind="quicksort", which pandas documents as not stable: the orders the  *)
(* sort may return are all those with the scores descending.               *)
SortOrders(rs) ==
    {p \in Perms(Len(rs)) :
        \A a, b \in 1..Len(rs) : a < b => rs[p[a]].score >= rs[p[b]].score}

----------------------------------------------------------------------------
(* The inputs.                                                             *)

Lactate == <<"L", "a", "c", "t", "a", "t", "e">>

Alanine == <<"A", "l", "a", "n", "i", "n", "e">>

Text(toks) == [na |-> FALSE, toks |-> toks]

Missing == [na |-> TRUE, toks |-> <<>>]

(* The ppm_list fields the tables of SpecMatch are written with: a missing *)
(* field, one to three shifts, two shifts closer than a tolerance, and     *)
(* fields with a token float() refuses.                                    *)
PpmCells ==
    {Missing, Text(<<"1.0">>), Text(<<"2.0">>), Text(<<"1.0", "2.0">>),
     Text(<<"1.0", "1.001">>), Text(<<"1.0", "2.0", "3.0">>),
     Text(<<"abc">>), Text(<<"1.0", "abc">>), Text(<<"1.0", "">>)}

(* 1.0, 1.001, 0.999, 2.0 and 2.0001 ppm. *)
SampleShifts == {10000, 10010, 9990, 20000, 20001}

(* 0, 0.001 and 0.01 ppm. *)
Tols == {0, 10, 100}

(* A table: row k of the frame, HMDB_ID standing for the record's identity. *)
MkTable(rows) ==
    [k \in 1..Len(rows) |->
        [Name |-> rows[k].Name, HMDB_ID |-> k, ppm_list |-> rows[k].ppm_list]]

MatchTables ==
    {MkTable(rows) :
        rows \in SeqsUpTo({[Name |-> Lactate, ppm_list |-> c] : c \in PpmCells},
                          MaxRecords)}

NoFile == [kind |-> "none", columns |-> <<>>, ppm |-> <<>>]

NoFrame == [columns |-> <<>>, ppm |-> <<>>]

----------------------------------------------------------------------------
(* match_to_hmdb, lines 46-68.                                             *)

(* lines 51-65: one turn of the loop over hmdb_df.iterrows().              *)
MatchRow ==
    /\ pc = "match_loop"
    /\ i <= Len(hmdb_df.rows)
    /\ IF ParseRaises(hmdb_df.rows[i].ppm_list)
       THEN /\ error' = "ValueError"
            /\ pc' = "aborted"
            /\ UNCHANGED <<i, results>>
       ELSE /\ results' = Append(results,
                                 ResultRow(sample_df.ppm, hmdb_df.rows[i], ppm_tol))
            /\ i' = i + 1
            /\ UNCHANGED <<error, pc>>
    /\ UNCHANGED <<refFile, hmdb_df, search_name, matches, uploaded_file,
                   sample_df, ppm_tol, caller, out>>

(* lines 67-68: DataFrame(results) has no "Match score" column when        *)
(* results is empty, and sort_values raises KeyError.                      *)
MatchSort ==
    /\ pc = "match_loop"
    /\ i > Len(hmdb_df.rows)
    /\ IF results = <<>>
       THEN /\ error' = "KeyError"
            /\ pc' = "aborted"
            /\ UNCHANGED results
       ELSE /\ \E p \in SortOrders(results) :
                  results' = [k \in 1..Len(results) |-> results[p[k]]]
            /\ pc' = IF caller = "app" THEN "display" ELSE "returned"
            /\ UNCHANGED error
    /\ UNCHANGED <<refFile, hmdb_df, search_name, matches, uploaded_file,
                   sample_df, ppm_tol, i, caller, out>>

MatchInit ==
    /\ refFile = [state |-> "ok", rows |-> <<>>]
    /\ hmdb_df \in {[isNone |-> FALSE, rows |-> t] : t \in MatchTables}
    /\ search_name = <<>>
    /\ matches = {}
    /\ uploaded_file = NoFile
    /\ sample_df \in {[columns |-> <<"ppm">>, ppm |-> s] :
                         s \in SeqsUpTo(SampleShifts, MaxPeaks)}
    /\ ppm_tol \in Tols
    /\ i = 1
    /\ results = <<>>
    /\ caller = "direct"
    /\ out = {}
    /\ error = "none"
    /\ pc = "match_loop"

MatchNext == MatchRow \/ MatchSort

SpecMatch == MatchInit /\ [][MatchNext]_vars

----------------------------------------------------------------------------
(* The metabolite search, lines 24-37.                                     *)

Lower(c) == IF c = "L" THEN "l" ELSE IF c = "A" THEN "a" ELSE c

(* line 27: str.contains(search_name, case=False) keeps the default        *)
(* regex=True, so search_name is compiled as a regular expression.  Over   *)
(* the characters of QueryChars, compiling raises re.error on an unclosed  *)
(* "(" and on a "*" with nothing, or another "*", before it.               *)
RegexRaises(pat) ==
    \E k \in 1..Len(pat) :
        \/ pat[k] = "("
        \/ pat[k] = "*" /\ (k = 1 \/ pat[k - 1] = "*")

RECURSIVE RegexItems(_)
(* The compiled pattern: its characters, each with whether a "*" follows.  *)
RegexItems(pat) ==
    IF pat = <<>> THEN <<>>
    ELSE IF Len(pat) >= 2 /\ pat[2] = "*"
         THEN <<[ch |-> pat[1], star |-> TRUE]>>
                  \o RegexItems(SubSeq(pat, 3, Len(pat)))
         ELSE <<[ch |-> pat[1], star |-> FALSE]>> \o RegexItems(Tail(pat))

(* One pattern character against one character of the name, re.IGNORECASE. *)
CharMatches(ch, c) == ch = "." \/ Lower(ch) = Lower(c)

RECURSIVE MatchHere(_, _, _)
(* Does the pattern match the text starting at position j?                 *)
MatchHere(items, text, j) ==
    IF items = <<>> THEN TRUE
    ELSE IF Head(items).star
         THEN \/ MatchHere(Tail(items), text, j)
              \/ /\ j <= Len(text)
                 /\ CharMatches(Head(items).ch, text[j])
                 /\ MatchHere(items, text, j + 1)
         ELSE /\ j <= Len(text)
              /\ CharMatches(Head(items).ch, text[j])
              /\ MatchHere(Tail(items), text, j + 1)

(* pat.search(name): a match starting anywhere in the name.                *)
RegexSearch(pat, text) ==
    \E j \in 1..(Len(text) + 1) : MatchHere(RegexItems(pat), text, j)

(* line 27: the rows of hmdb_df the search keeps.                          *)
SearchMatches(pat, rows) ==
    {k \in 1..Len(rows) : RegexSearch(pat, rows[k].Name)}

----------------------------------------------------------------------------
(* The upload block, lines 105-151.                                        *)

(* line 113 *)
PossiblePpmCols == {"ppm", "Shift", "Chemical Shift"}

(* A detection that falls back on the first column of the file.            *)
DetectFirstColumn(columns) ==
    IF \E k \in 1..Len(columns) : columns[k] \in PossiblePpmCols
    THEN CHOOSE k \in 1..Len(columns) :
             /\ columns[k] \in PossiblePpmCols
             /\ \A j \in 1..(k - 1) : columns[j] \notin PossiblePpmCols
    ELSE 1

(* line 114: the position of the first column of the file whose header is  *)
(* accepted, 0 standing for None.                                          *)
DetectPpmCol(columns) ==
    IF \E k \in 1..Len(columns) : columns[k] \in PossiblePpmCols
    THEN CHOOSE k \in 1..Len(columns) :
             /\ columns[k] \in PossiblePpmCols
             /\ \A j \in 1..(k - 1) : columns[j] \notin PossiblePpmCols
    ELSE 0

(* line 118: rename(columns={ppm_col: "ppm"}) *)
Rename(columns, ppm_col) ==
    [k \in 1..Len(columns) |-> IF columns[k] = columns[ppm_col] THEN "ppm" ELSE columns[k]]

(* Two columns named "ppm": sample_df["ppm"] is then a frame, not a column. *)
DuplicatePpm(columns) ==
    \E a, b \in 1..Len(columns) : a # b /\ columns[a] = "ppm" /\ columns[b] = "ppm"

(* lines 72-73: plot_spectrum adds the intensity column in place.          *)
WithIntensity(columns) ==
    IF \E k \in 1..Len(columns) : columns[k] = "intensity"
    THEN columns
    ELSE Append(columns, "intensity")

(* line 135: the slider's lowest, default and highest value.               *)
SliderMin == 50

SliderDefault == 200

SliderMax == 500

SliderTols == {SliderMin, SliderDefault, SliderMax}

----------------------------------------------------------------------------
(* The inputs of a run of the script.                                      *)

QueryChars == {"l", "L", ".", "(", "*"}

Queries == SeqsUpTo(QueryChars, MaxQuery) \cup {<<"l", "a", "c", "t">>}

AppRows ==
    {[Name |-> Lactate, ppm_list |-> Text(<<"1.0">>)],
     [Name |-> Alanine, ppm_list |-> Text(<<"1.0", "abc">>)]}

RefFiles ==
    {[state |-> "missing", rows |-> <<>>], [state |-> "unreadable", rows |-> <<>>]}
    \cup {[state |-> "ok", rows |-> MkTable(rows)] :
             rows \in SeqsUpTo(AppRows, MaxRecords)}

Headers == {"ppm", "Shift", "Chemical Shift", "intensity"}

(* pandas gives the columns of a file distinct names. *)
ColumnLists ==
    {c \in SeqsUpTo(Headers, MaxCols) :
        /\ c # <<>>
        /\ \A a, b \in 1..Len(c) : a # b => c[a] # c[b]}

AppShifts == {10000, 20000}

(* uploaded_file: no file, a file read_csv cannot read, or a table with    *)
(* its headers and the values of its shift column (none without one).      *)
Uploads ==
    {NoFile, [kind |-> "unreadable", columns |-> <<>>, ppm |-> <<>>]}
    \cup {[kind |-> "csv", columns |-> c, ppm |-> p] :
             c \in {d \in ColumnLists : \E k \in 1..Len(d) : d[k] \in PossiblePpmCols},
             p \in SeqsUpTo(AppShifts, MaxPeaks)}
    \cup {[kind |-> "csv", columns |-> c, ppm |-> <<>>] :
             c \in {d \in ColumnLists : \A k \in 1..Len(d) : d[k] \notin PossiblePpmCols}}

----------------------------------------------------------------------------
(* The script, top to bottom.                                              *)

(* lines 9-18: hmdb_df = load_hmdb(); only FileNotFoundError is caught.    *)
LoadHmdb ==
    /\ pc = "load"
    /\ IF refFile.state = "missing"
       THEN /\ hmdb_df' = [isNone |-> TRUE, rows |-> <<>>]
            /\ pc' = "search"
            /\ UNCHANGED error
       ELSE IF refFile.state = "unreadable"
       THEN /\ error' = "ReadError"
            /\ pc' = "aborted"
            /\ UNCHANGED hmdb_df
       ELSE /\ hmdb_df' = [isNone |-> FALSE, rows |-> refFile.rows]
            /\ pc' = "search"
            /\ UNCHANGED error
    /\ UNCHANGED <<refFile, search_name, matches, uploaded_file, sample_df,
                   ppm_tol, i, results, caller, out>>

(* lines 24-37 *)
SearchBlock ==
    /\ pc = "search"
    /\ IF search_name # <<>> /\ ~hmdb_df.isNone
       THEN IF RegexRaises(search_name)
            THEN /\ error' = "re.error"
                 /\ pc' = "aborted"
                 /\ UNCHANGED <<matches, out>>
            ELSE /\ matches' = SearchMatches(search_name, hmdb_df.rows)
                 /\ out' = out \cup {IF matches' # {} THEN "search_results"
                                                     ELSE "not_found"}
                 /\ pc' = "upload"
                 /\ UNCHANGED error
       ELSE /\ pc' = "upload"
            /\ UNCHANGED <<matches, out, error>>
    /\ UNCHANGED <<refFile, hmdb_df, search_name, uploaded_file, sample_df,
                   ppm_tol, i, results, caller>>

(* lines 105-110 *)
ReadUpload ==
    /\ pc = "upload"
    /\ IF uploaded_file.kind = "none"
       THEN /\ pc' = "done"
            /\ UNCHANGED <<sample_df, out>>
       ELSE IF uploaded_file.kind = "unreadable"
       THEN /\ out' = out \cup {"read_error"}
            /\ pc' = "done"
            /\ UNCHANGED sample_df
       ELSE /\ sample_df' = [columns |-> uploaded_file.columns,
                             ppm |-> uploaded_file.ppm]
            /\ pc' = "detect"
            /\ UNCHANGED out
    /\ UNCHANGED <<refFile, hmdb_df, search_name, matches, uploaded_file,
                   ppm_tol, i, results, caller, error>>

(* lines 113-118 *)
DetectPpm ==
    /\ pc = "detect"
    /\ IF DetectPpmCol(sample_df.columns) = 0
       THEN /\ out' = out \cup {"missing_col_error"}
            /\ pc' = "done"
            /\ UNCHANGED sample_df
       ELSE /\ sample_df' = [sample_df EXCEPT
                   !.columns = Rename(sample_df.columns,
                                      DetectPpmCol(sample_df.columns))]
            /\ pc' = "show_peaks"
            /\ UNCHANGED out
    /\ UNCHANGED <<refFile, hmdb_df, search_name, matches, uploaded_file,
                   ppm_tol, i, results, caller, error>>

(* lines 119-120: st.dataframe(sample_df).  What the libraries make of a   *)
(* frame with two "ppm" columns is theirs to say: the run may end here.    *)
ShowPeaks ==
    /\ pc = "show_peaks"
    /\ \/ /\ out' = out \cup {"peaks"}
          /\ pc' = "plot"
          /\ UNCHANGED error
       \/ /\ DuplicatePpm(sample_df.columns)
          /\ error' = "ValueError"
          /\ pc' = "aborted"
          /\ UNCHANGED out
    /\ UNCHANGED <<refFile, hmdb_df, search_name, matches, uploaded_file,
                   sample_df, ppm_tol, i, results, caller>>

(* lines 123-124 and 70-80 *)
PlotSpectrum ==
    /\ pc = "plot"
    /\ sample_df' = [sample_df EXCEPT !.columns = WithIntensity(sample_df.columns)]
    /\ out' = out \cup {"plot"}
    /\ pc' = "estimate_j"
    /\ UNCHANGED <<refFile, hmdb_df, search_name, matches, uploaded_file,
                   ppm_tol, i, results, caller, error>>

(* lines 127-130 and 42-44 *)
EstimateJ ==
    /\ pc = "estimate_j"
    /\ out' = out \cup {"jcoupling"}
    /\ pc' = "compare"
    /\ UNCHANGED <<refFile, hmdb_df, search_name, matches, uploaded_file,
                   sample_df, ppm_tol, i, results, caller, error>>

(* lines 133-136 and 150-151: the call of match_to_hmdb, or the warning.   *)
Compare ==
    /\ pc = "compare"
    /\ IF hmdb_df.isNone
       THEN /\ out' = out \cup {"no_hmdb_warning"}
            /\ pc' = "done"
            /\ UNCHANGED <<ppm_tol, i, results>>
       ELSE /\ \E t \in SliderTols : ppm_tol' = t
            /\ i' = 1
            /\ results' = <<>>
            /\ pc' = "match_loop"
            /\ UNCHANGED out
    /\ UNCHANGED <<refFile, hmdb_df, search_name, matches, uploaded_file,
                   sample_df, caller, error>>

(* lines 139-149 *)
DisplayResults ==
    /\ pc = "display"
    /\ out' = out \cup {"results"}
    /\ pc' = "done"
    /\ UNCHANGED <<refFile, hmdb_df, search_name, matches, uploaded_file,
                   sample_df, ppm_tol, i, results, caller, error>>

Init ==
    /\ refFile \in RefFiles
    /\ hmdb_df = [isNone |-> TRUE, rows |-> <<>>]
    /\ search_name \in Queries
    /\ matches = {}
    /\ uploaded_file \in Uploads
    /\ sample_df = NoFrame
    /\ ppm_tol = SliderDefault
    /\ i = 1
    /\ results = <<>>
    /\ caller = "app"
    /\ out = {}
    /\ error = "none"
    /\ pc = "load"

Next ==
    \/ LoadHmdb
    \/ SearchBlock
    \/ ReadUpload
    \/ DetectPpm
    \/ ShowPeaks
    \/ PlotSpectrum
    \/ EstimateJ
    \/ Compare
    \/ MatchRow
    \/ MatchSort
    \/ DisplayResults

Spec == Init /\ [][Next]_vars

----------------------------------------------------------------------------
(* Properties of match_to_hmdb, checked under SpecMatch.                   *)

(* The match count of the contract, counted on its own: the number of      *)
(* sample peaks with at least one expected shift within tol.               *)
SampleMatchCount(S, E, tol) ==
    Cardinality({k \in 1..Len(S) :
        \E j \in 1..Len(E) : ~E[j].nan /\ Abs(S[k] - E[j].v) <= tol})

(* The number of expected shifts with at least one sample peak within tol. *)
ExpectedCovered(S, E, tol) ==
    Cardinality({j \in 1..Len(E) :
        \E k \in 1..Len(S) : ~E[j].nan /\ Abs(S[k] - E[j].v) <= tol})

(* The expected shifts a field yields once its unparsable tokens are       *)
(* dropped.                                                                *)
ReducedShifts(cell) ==
    SelectSeq(StrSplit(cell), FloatParses)

(* A field with no finite shift in it: missing, or no token parses.        *)
EmptyExpected(cell) ==
    cell.na \/ \A k \in 1..Len(cell.toks) : ~FloatParses(cell.toks[k])

ScoredPeaks(k) == ParsedShifts(results[k].HMDB_peaks)

(* C1, as stated: every reported Match score equals match_count / |E|      *)
(* exactly (score * |E| = match_count, in thousandths).                    *)
C1_ScoreIsExactRatio ==
    \A k \in 1..Len(results) :
        results[k].score * Len(ScoredPeaks(k))
            = 1000 * SampleMatchCount(sample_df.ppm, ScoredPeaks(k), ppm_tol)

(* C1, amended: every reported Match score is match_count / |E| rounded to *)
(* three decimals (at most half a thousandth away from the ratio), where   *)
(* match_count is the number of sample peaks within tol (inclusive) of at  *)
(* least one expected shift; and E=[2.0], S=[2.0], tol=0 gives 1.0,        *)
(* E=[2.0], S=[2.0001], tol=0 gives 0.0, E=[1.0,2.0], S=[1.0], tol=0.01    *)
(* gives 0.5.                                                              *)
C1_ScoreIsRoundedRatio ==
    \A k \in 1..Len(results) :
        LET E  == ScoredPeaks(k)
            S  == sample_df.ppm
            mc == SampleMatchCount(S, E, ppm_tol)
            sc == results[k].score
        IN  /\ 2 * Abs(1000 * mc - sc * Len(E)) <= Len(E)
            /\ (E = <<F(20000)>> /\ S = <<20000>> /\ ppm_tol = 0) => sc = 1000
            /\ (E = <<F(20000)>> /\ S = <<20001>> /\ ppm_tol = 0) => sc = 0
            /\ (E = <<F(10000), F(20000)>> /\ S = <<10000>> /\ ppm_tol = 100)
                   => sc = 500

(* A call has returned a record of three expected shifts of which one      *)
(* sample peak matched one: the score is 0.333.                            *)
C1_Witness ==
    /\ pc = "returned"
    /\ \E k \in 1..Len(results) :
          /\ Len(ScoredPeaks(k)) = 3
          /\ SampleMatchCount(sample_df.ppm, ScoredPeaks(k), ppm_tol) = 1
          /\ results[k].score = 333

(* C2: every score match_to_hmdb produces lies in [0, 1].                  *)
C2_ScoreInUnitInterval ==
    \A k \in 1..Len(results) : results[k].score >= 0 /\ results[k].score <= 1000

(* C3: the returned sequence is sorted by score descending, and records of *)
(* equal score keep the order they have in the reference table.            *)
C3_SortedStable ==
    pc = "returned" =>
        \A a, b \in 1..Len(results) :
            a < b =>
                /\ results[a].score >= results[b].score
                /\ results[a].score = results[b].score
                       => results[a].HMDB_ID < results[b].HMDB_ID

(* C4: a record whose expected-shift field is empty or fully unparsable    *)
(* raises no error and is given score 0.                                   *)
C4_EmptyExpectedScoresZero ==
    /\ (pc = "aborted" /\ error = "ValueError")
           => ~EmptyExpected(hmdb_df.rows[i].ppm_list)
    /\ \A k \in 1..Len(results) :
           EmptyExpected(results[k].HMDB_peaks) => results[k].score = 0

(* A field with a token float() refuses beside at least one it accepts.    *)
PartlyUnparsable(cell) ==
    /\ ~cell.na
    /\ \E k \in 1..Len(cell.toks) : ~FloatParses(cell.toks[k])
    /\ \E k \in 1..Len(cell.toks) : FloatParses(cell.toks[k])

(* C5: a record whose field holds unparsable tokens beside parsable ones   *)
(* does not abort the run: the loop gets past it, and it is scored against *)
(* the shifts that remain.                                                 *)
C5_UnparsableTokensSkipped ==
    /\ (pc = "aborted" /\ error = "ValueError")
           => ~PartlyUnparsable(hmdb_df.rows[i].ppm_list)
    /\ \A k \in 1..Len(results) :
           PartlyUnparsable(results[k].HMDB_peaks) =>
               LET red == ReducedShifts(results[k].HMDB_peaks)
                   E   == [j \in 1..Len(red) |-> FloatOf[red[j]]]
               IN  results[k].score
                       = Round3(SampleMatchCount(sample_df.ppm, E, ppm_tol), Len(E))

(* C6: the match count behind a score is the number of expected peaks      *)
(* found among the sample's peaks, so sample peaks near the same expected  *)
(* peak count once: E=[1.0], S=[1.001, 0.999], tol=0.01 has match count 1. *)
C6_DuplicatesDoNotInflate ==
    \A k \in 1..Len(results) :
        LET E == ScoredPeaks(k)
        IN  results[k].score
                = Round3(ExpectedCovered(sample_df.ppm, E, ppm_tol), Len(E))

(* C10: match_to_hmdb returns without error, for every table the empty one *)
(* included, exactly one entry per record of the table.                    *)
C10_ReturnsOneEntryPerRecord ==
    /\ error = "none"
    /\ pc = "returned" =>
          /\ Len(results) = Len(hmdb_df.rows)
          /\ {results[k].HMDB_ID : k \in 1..Len(results)} = 1..Len(hmdb_df.rows)

----------------------------------------------------------------------------
(* Properties of the script, checked under Spec.                           *)

HasAcceptedHeader(columns) ==
    \E k \in 1..Len(columns) : columns[k] \in {"ppm", "Shift", "Chemical Shift"}

Processing ==
    \/ pc \in {"show_peaks", "plot", "estimate_j", "compare", "match_loop", "display"}
    \/ out \cap {"peaks", "plot", "jcoupling", "results", "no_hmdb_warning"} # {}

(* C7: an upload with none of the headers 'ppm', 'Shift', 'Chemical Shift' *)
(* is rejected with the error message and nothing of it is processed (no   *)
(* peaks table, plot, J-coupling estimate or match_to_hmdb call); and when *)
(* processing happens, the first accepted header of the file has been      *)
(* renamed to 'ppm' and the frame matched is the file's, with 'ppm' the    *)
(* only column of that name when the file had one accepted header.         *)
C7_UploadWithoutShiftColumnRejected ==
    /\ (uploaded_file.kind = "csv" /\ ~HasAcceptedHeader(uploaded_file.columns))
           => /\ ~Processing
              /\ results = <<>>
              /\ pc = "done" => "missing_col_error" \in out
    /\ Processing
           => /\ uploaded_file.kind = "csv"
              /\ \A k \in 1..Len(uploaded_file.columns) :
                     (/\ uploaded_file.columns[k] \in {"ppm", "Shift", "Chemical Shift"}
                      /\ \A j \in 1..(k - 1) :
                             uploaded_file.columns[j]
                                 \notin {"ppm", "Shift", "Chemical Shift"})
                         => /\ sample_df.columns[k] = "ppm"
                            /\ \A j \in 1..Len(sample_df.columns) :
                                   j # k => sample_df.columns[j] # uploaded_file.columns[k]
                                            \/ uploaded_file.columns[k] = "ppm"
              /\ Cardinality({k \in 1..Len(uploaded_file.columns) :
                     uploaded_file.columns[k] \in {"ppm", "Shift", "Chemical Shift"}}) = 1
                   => Cardinality({k \in 1..Len(sample_df.columns) :
                          sample_df.columns[k] = "ppm"}) = 1
              /\ sample_df.ppm = uploaded_file.ppm

(* A run has ended on an upload whose only columns are not shift columns,  *)
(* with the error message rendered.                                        *)
C7_Witness ==
    /\ pc = "done"
    /\ uploaded_file.kind = "csv"
    /\ ~HasAcceptedHeader(uploaded_file.columns)
    /\ "missing_col_error" \in out

(* C8: with the reference table missing or unreadable the run never        *)
(* aborts, search and matching are disabled, and the run ends with the     *)
(* warning rendered, whatever was typed or uploaded.                       *)
C8_MissingReferenceDegrades ==
    refFile.state # "ok" =>
        /\ error = "none"
        /\ out \cap {"search_results", "not_found", "results"} = {}
        /\ pc # "match_loop"
        /\ pc = "done" => "no_hmdb_warning" \in out

(* lowercase(q) occurs in lowercase(n) as a literal substring.             *)
LiteralSubstring(q, n) ==
    \E j \in 1..(Len(n) - Len(q) + 1) :
        \A k \in 1..Len(q) : Lower(q[k]) = Lower(n[j + k - 1])

(* C9: for every non-empty search string the search raises no error and    *)
(* returns exactly the records whose lowercased name contains the          *)
(* lowercased string literally, with the 'not found' notice when none do.  *)
C9_SearchIsLiteralSubstring ==
    (search_name # <<>> /\ refFile.state = "ok") =>
        /\ error # "re.error"
        /\ pc \notin {"load", "search", "aborted"} =>
              /\ matches = {k \in 1..Len(hmdb_df.rows) :
                               LiteralSubstring(search_name, hmdb_df.rows[k].Name)}
              /\ matches = {} => "not_found" \in out

=============================================================================
